---- MODULE Spec2Model ----
(***************************************************************************)
(* GigConnect server API: the task and bid route handlers of               *)
(* src/unnamed/part_000 (the paginated, creatorName-requiring variant of   *)
(* src/index.js) over the two MongoDB collections "tasks" and "bids".      *)
(*                                                                         *)
(* Every handler is an async function: it runs synchronously up to an      *)
(* awaited store operation, the store executes the operation atomically,   *)
(* and the handler's continuation runs later.  Each such piece is one      *)
(* action; requests of different handlers (and two bid requests)           *)
(* interleave.                                                             *)
(*                                                                         *)
(* JSON values are modelled by string tokens: "undefined" is an absent     *)
(* key, "" the empty string, "0" "-10" "50" ... are JSON numbers, and      *)
(* "str:50" is the JSON string "50".  Date objects are clock ticks.        *)
(***************************************************************************)
EXTENDS Integers, Sequences, FiniteSets, TLC

\* ------------------------------------------------------------------ bounds
MaxTime == 2
DayLen == 2
MaxOps == 3
MaxIds == 1
MaxListTasks == 7

\* --------------------------------------------------------- JSON / JS values
Undefined == "undefined"

\* !(field in obj) || !obj[field]
Falsy(v) == v \in {Undefined, "", "0"}

NumberTokens == {"0", "-10", "-5", "20", "50", "75"}

\* typeof v === 'number'
TypeofNumber(v) == v \in NumberTokens

NumberValue(v) ==
  CASE v = "0" -> 0
    [] v = "-10" -> 0 - 10
    [] v = "-5" -> 0 - 5
    [] v = "20" -> 20
    [] v = "50" -> 50
    [] v = "75" -> 75

\* typeof v !== 'number' || v <= 0
NotPositiveNumber(v) == ~TypeofNumber(v) \/ NumberValue(v) <= 0

allowedCategories ==
  {"Web Development", "Graphic Design", "Digital Marketing",
   "Writing & Translation", "Video & Animation", "General"}

\* new Date(x).getTime() of an unparseable value
NaN == -1

\* The calendar day (days since the clock's origin, 2026-11-01T00:00) that a
\* date string denotes.
DateStrings == {"2026-11-01", "2026-11-02", "Nov 1, 2026"}

DateDay(s) ==
  CASE s = "2026-11-01" -> 0
    [] s = "2026-11-02" -> 1
    [] s = "Nov 1, 2026" -> 0

\* new Date(x).getTime(): the tick of a date string, NaN for anything else
ParseDate(x) == IF x \in DateStrings THEN DateDay(x) * DayLen ELSE NaN

\* isNaN(d.getTime())
IsNaN(t) == t = NaN

\* a < b and a > b on Dates: false when either is an Invalid Date
DateLT(a, b) == ~IsNaN(a) /\ ~IsNaN(b) /\ a < b
DateGT(a, b) == ~IsNaN(a) /\ ~IsNaN(b) /\ a > b

\* today.setHours(0, 0, 0, 0)
StartOfDay(t) == (t \div DayLen) * DayLen

\* ------------------------------------------------------------- identifiers
\* An _id is an ObjectId or, when the client supplied one in a JSON body, a
\* string; hex = n stands for the 24-hex-digit text of the n-th identifier.
NoId == [type |-> "undefined", hex |-> 0]
ObjectId(n) == [type |-> "ObjectId", hex |-> n]
StringId(n) == [type |-> "String", hex |-> n]

\* A path parameter :id is a string: 0 is the text "not-an-object-id", n > 0
\* the 24-hex-digit text of n.
BadParam == 0
PathParams == 0 .. MaxIds

\* ObjectId.isValid(id)
IsValid(p) == p # BadParam

\* --------------------------------------------------------------- documents
JsonTaskFields ==
  {"title", "category", "budget", "deadline", "description",
   "creatorEmail", "creatorName"}

NoTimestamp == -1

NoTask ==
  [_id |-> NoId, title |-> Undefined, category |-> Undefined,
   budget |-> Undefined, deadline |-> Undefined, description |-> Undefined,
   creatorEmail |-> Undefined, creatorName |-> Undefined,
   createdAt |-> NoTimestamp, updatedAt |-> NoTimestamp]

\* A request body for the task routes: the JSON keys it carries.
NoBody ==
  [_id |-> NoId, title |-> Undefined, category |-> Undefined,
   budget |-> Undefined, deadline |-> Undefined, description |-> Undefined,
   creatorEmail |-> Undefined, creatorName |-> Undefined]

BaseTask ==
  [_id |-> NoId, title |-> "Logo design", category |-> "Graphic Design",
   budget |-> "50", deadline |-> "2026-11-02", description |-> "...",
   creatorEmail |-> "a@x.com", creatorName |-> "Ann"]

\* The bodies POST /api/v1/tasks is tried with: valid tasks (one carrying its
\* own _id), and tasks that break one rule of the validation each.
TaskInputs ==
  {BaseTask,
   [BaseTask EXCEPT !._id = StringId(1)],
   [BaseTask EXCEPT !.creatorEmail = "b@x.com", !.creatorName = "Bob",
                    !.category = "General"],
   [BaseTask EXCEPT !.deadline = "Nov 1, 2026"],
   [BaseTask EXCEPT !.deadline = "2026-11-01"],
   [BaseTask EXCEPT !.deadline = "not a date"],
   [BaseTask EXCEPT !.title = Undefined],
   [BaseTask EXCEPT !.description = ""],
   [BaseTask EXCEPT !.creatorName = Undefined],
   [BaseTask EXCEPT !.budget = "0"],
   [BaseTask EXCEPT !.budget = "-10"],
   [BaseTask EXCEPT !.budget = "str:50"],
   [BaseTask EXCEPT !.category = "Plumbing"]}

\* The bodies PUT /api/v1/tasks/:id is tried with.
UpdatePayloads ==
  {NoBody,
   [NoBody EXCEPT !.budget = "-10"],
   [NoBody EXCEPT !.budget = "50"],
   [NoBody EXCEPT !.category = "Plumbing"],
   [NoBody EXCEPT !.deadline = "2026-11-01"],
   [NoBody EXCEPT !.deadline = "not a date"],
   [NoBody EXCEPT !.creatorEmail = "b@x.com"],
   [NoBody EXCEPT !._id = StringId(1)],
   [NoBody EXCEPT !.creatorEmail = "b@x.com", !.creatorName = "Bob", !.budget = "75"]}

\* A request body for POST /api/v1/tasks/:taskId/bids.
NoBid ==
  [biddingAmount |-> Undefined, bidderEmail |-> Undefined,
   bidderDeadline |-> Undefined, comment |-> Undefined]

BaseBid ==
  [biddingAmount |-> "20", bidderEmail |-> "b@x.com",
   bidderDeadline |-> Undefined, comment |-> Undefined]

\* The bodies the bid route is tried with.
BidInputs ==
  {BaseBid, NoBid,
   [BaseBid EXCEPT !.biddingAmount = "-5"],
   [BaseBid EXCEPT !.biddingAmount = "str:20"],
   [BaseBid EXCEPT !.bidderEmail = "a@x.com"],
   [BaseBid EXCEPT !.bidderEmail = "a@x.com", !.biddingAmount = Undefined],
   [BaseBid EXCEPT !.bidderDeadline = "2026-11-02", !.comment = "hi"],
   [BaseBid EXCEPT !.bidderDeadline = "not a date"]}

\* ------------------------------------------------------------------- state
VARIABLES
  tasks,      \* the "tasks" collection, in insertion (natural) order
  bids,       \* the "bids" collection, in insertion order
  now,        \* the server clock, in ticks
  nextOid,    \* the next ObjectId the driver generates
  ops,        \* requests received so far
  createReq,  \* POST /api/v1/tasks awaiting its insertOne
  updateReq,  \* PUT /api/v1/tasks/:id awaiting its updateOne
  bidReq,     \* POST /api/v1/tasks/:taskId/bids, two requests in flight
              \* (bidsSeen is history: the bids stored when findOne ran)
  listReq,    \* GET /api/v1/tasks between countDocuments and find
  resp,       \* the response sent last, with the request it answers (NoResp
              \* once a later request is being served)
  deleted,    \* history: path ids whose DELETE answered 204
  pristine    \* history: the inserted tasks no updateOne/deleteOne matched yet

vars ==
  <<tasks, bids, now, nextOid, ops, createReq, updateReq, bidReq, listReq, resp,
    deleted, pristine>>

Bidders == {1, 2}

\* ---------------------------------------------------------- store operations
\* collection.findOne({ _id: id }): the document, or null (NoTask)
FindOne(coll, id) ==
  IF \E i \in DOMAIN coll : coll[i]._id = id
    THEN coll[CHOOSE i \in DOMAIN coll : coll[i]._id = id]
    ELSE NoTask

\* insertOne fails with a duplicate-key error when the _id is taken
DuplicateKey(coll, id) == \E i \in DOMAIN coll : coll[i]._id = id

RemoveAt(s, i) == SubSeq(s, 1, i - 1) \o SubSeq(s, i + 1, Len(s))

\* Mutant of DeleteOne: reports the deletion and leaves the document stored.
DeleteOneKeepsDocument(coll, id) == coll

\* result.deletedCount of deleteOne
DeletedCount(coll, id) == IF \E i \in DOMAIN coll : coll[i]._id = id THEN 1 ELSE 0

\* collection.deleteOne({ _id: id })
DeleteOne(coll, id) ==
  IF \E i \in DOMAIN coll : coll[i]._id = id
    THEN RemoveAt(coll, CHOOSE i \in DOMAIN coll : coll[i]._id = id)
    ELSE coll

\* $set: the keys of the update document replace the stored ones
ApplySet(doc, set, updatedAt) ==
  [_id |-> doc._id,
   title |-> IF set.title # Undefined THEN set.title ELSE doc.title,
   category |-> IF set.category # Undefined THEN set.category ELSE doc.category,
   budget |-> IF set.budget # Undefined THEN set.budget ELSE doc.budget,
   deadline |-> IF set.deadline # Undefined THEN set.deadline ELSE doc.deadline,
   description |->
     IF set.description # Undefined THEN set.description ELSE doc.description,
   creatorEmail |->
     IF set.creatorEmail # Undefined THEN set.creatorEmail ELSE doc.creatorEmail,
   creatorName |->
     IF set.creatorName # Undefined THEN set.creatorName ELSE doc.creatorName,
   createdAt |-> doc.createdAt,
   updatedAt |-> updatedAt]

\* collection.updateOne({ _id: id }, { $set: set })
UpdateOne(coll, id, set, updatedAt) ==
  [i \in DOMAIN coll |->
     IF coll[i]._id = id THEN ApplySet(coll[i], set, updatedAt) ELSE coll[i]]

\* ---------------------------------------------------------------- Init
IdleCreate == [pc |-> "idle", input |-> NoBody, doc |-> NoTask]
IdleUpdate == [pc |-> "idle", id |-> BadParam, body |-> NoBody, updatedAt |-> NoTimestamp]
IdleBid ==
  [pc |-> "idle", taskId |-> BadParam, body |-> NoBid, task |-> NoTask,
   checkTime |-> NoTimestamp, placedAt |-> NoTimestamp, bidsSeen |-> 0]
IdleList == [pc |-> "idle", pageParam |-> Undefined, limitParam |-> Undefined, totalTasks |-> 0]

\* A response and the request it answers; a handler fills the fields it has.
NoResp ==
  [op |-> "none", status |-> 0, id |-> BadParam, input |-> NoBody, task |-> NoTask,
   taskId |-> NoId, bidData |-> NoBid, checkTime |-> NoTimestamp,
   modifiedCount |-> 0, afterDelete |-> FALSE, created |-> {},
   pageParam |-> Undefined, limitParam |-> Undefined, limit |-> 0,
   tasks |-> <<>>, totalTasks |-> 0, totalPages |-> 0, currentPage |-> 0,
   stored |-> 0, bidsSeen |-> 0, bids |-> <<>>, path |-> <<>>,
   creatorEmail |-> Undefined, message |-> ""]

Init ==
  /\ tasks = <<>>
  /\ bids = <<>>
  /\ now = 0
  /\ nextOid = 1
  /\ ops = 0
  /\ createReq = IdleCreate
  /\ updateReq = IdleUpdate
  /\ bidReq = [b \in Bidders |-> IdleBid]
  /\ listReq = IdleList
  /\ resp = NoResp
  /\ deleted = {}
  /\ pristine = {}

\* ------------------------------------------------- POST /api/v1/tasks
requiredFields ==
  {"title", "category", "budget", "deadline", "description", "creatorEmail",
   "creatorName"}

missingFields(taskData) == {f \in requiredFields : Falsy(taskData[f])}

\* isNaN(deadlineDate.getTime()) || deadlineDate < today
DeadlineRejected(deadline, t) ==
  IsNaN(ParseDate(deadline)) \/ DateLT(ParseDate(deadline), StartOfDay(t))

\* Mutant of CreateRejects: the category check is left out.
CreateRejectsNoCategory(taskData, t) ==
  \/ missingFields(taskData) # {}
  \/ NotPositiveNumber(taskData.budget)
  \/ DeadlineRejected(taskData.deadline, t)

\* The validation of the handler: TRUE when it answers 400.
CreateRejects(taskData, t) ==
  \/ missingFields(taskData) # {}
  \/ NotPositiveNumber(taskData.budget)
  \/ taskData.category \notin allowedCategories
  \/ DeadlineRejected(taskData.deadline, t)

\* taskData.createdAt = new Date()
StampCreated(taskData, t) ==
  [_id |-> taskData._id, title |-> taskData.title, category |-> taskData.category,
   budget |-> taskData.budget, deadline |-> taskData.deadline,
   description |-> taskData.description, creatorEmail |-> taskData.creatorEmail,
   creatorName |-> taskData.creatorName, createdAt |-> t, updatedAt |-> NoTimestamp]

\* The handler up to its await: validation, the timestamp, insertOne issued.
CreateReceive(inputs) ==
  /\ createReq.pc = "idle"
  /\ \E taskData \in inputs :
       IF CreateRejects(taskData, now)
         THEN /\ resp' = [NoResp EXCEPT !.op = "create", !.input = taskData,
                                        !.checkTime = now, !.status = 400]
              /\ UNCHANGED createReq
         ELSE /\ createReq' = [pc |-> "insertOne", input |-> taskData,
                               doc |-> StampCreated(taskData, now)]
              /\ resp' = NoResp
  /\ UNCHANGED <<tasks, bids, now, nextOid, updateReq, bidReq, listReq, deleted,
                 pristine>>

\* insertOne keeps a supplied _id and generates an ObjectId otherwise
InsertedDoc(doc, oid) == IF doc._id = NoId THEN [doc EXCEPT !._id = ObjectId(oid)] ELSE doc

\* The store executes insertOne; the handler answers 201, or 500 from its catch.
CreateInsertOne ==
  /\ createReq.pc = "insertOne"
  /\ LET doc == InsertedDoc(createReq.doc, nextOid)
         r == [NoResp EXCEPT !.op = "create", !.input = createReq.input,
                             !.checkTime = createReq.doc.createdAt]
     IN IF DuplicateKey(tasks, doc._id)
          THEN /\ resp' = [r EXCEPT !.status = 500]
               /\ UNCHANGED <<tasks, pristine>>
          ELSE /\ tasks' = Append(tasks, doc)
               /\ resp' = [r EXCEPT !.status = 201, !.taskId = doc._id]
               /\ pristine' = pristine \cup {[taskId |-> doc._id, input |-> createReq.input]}
  /\ createReq' = IdleCreate
  /\ nextOid' = IF createReq.doc._id = NoId THEN nextOid + 1 ELSE nextOid
  /\ UNCHANGED <<bids, now, updateReq, bidReq, listReq, deleted>>

\* ------------------------------------------------- GET /api/v1/tasks/:id
\* The answer of the handler for the path parameter id: the id check, findOne,
\* and 200 with the task or 404.
GetByIdResponse(id) ==
  IF ~IsValid(id)
    THEN [NoResp EXCEPT !.op = "get", !.id = id, !.status = 400]
    ELSE LET task == FindOne(tasks, ObjectId(id)) IN
         [NoResp EXCEPT !.op = "get", !.id = id,
                        !.status = IF task = NoTask THEN 404 ELSE 200,
                        !.task = task,
                        !.afterDelete = id \in deleted,
                        !.created = {e \in pristine : e.taskId.hex = id}]

\* The whole handler, for any :id.
GetById ==
  /\ \E id \in PathParams : resp' = GetByIdResponse(id)
  /\ UNCHANGED <<tasks, bids, now, nextOid, createReq, updateReq, bidReq, listReq,
                 deleted, pristine>>

\* ------------------------------------------------- PUT /api/v1/tasks/:id
\* Object.keys(updatePayload).length === 0
EmptyPayload(body) == body = NoBody

\* Mutant of StripPayload: creatorName is not stripped.
StripPayloadKeepsName(body) == [body EXCEPT !._id = NoId, !.creatorEmail = Undefined]

\* Mutant of StripPayload: creatorEmail is not stripped.
StripPayloadKeepsEmail(body) == [body EXCEPT !._id = NoId, !.creatorName = Undefined]

\* delete updatePayload._id / .creatorEmail / .creatorName
StripPayload(body) ==
  [body EXCEPT !._id = NoId, !.creatorEmail = Undefined, !.creatorName = Undefined]

\* The handler up to its await: the checks, the stripping, the timestamp.
UpdateReceive(payloads) ==
  /\ updateReq.pc = "idle"
  /\ \E id \in PathParams, body \in payloads :
       IF ~IsValid(id) \/ EmptyPayload(body)
         THEN /\ resp' = [NoResp EXCEPT !.op = "update", !.id = id, !.input = body,
                                        !.status = 400]
              /\ UNCHANGED updateReq
         ELSE /\ updateReq' = [pc |-> "updateOne", id |-> id, body |-> body,
                               updatedAt |-> now]
              /\ resp' = NoResp
  /\ UNCHANGED <<tasks, bids, now, nextOid, createReq, bidReq, listReq, deleted,
                 pristine>>

\* The store executes updateOne; the handler answers from matchedCount and
\* modifiedCount.
UpdateOneStep ==
  /\ updateReq.pc = "updateOne"
  /\ LET id == ObjectId(updateReq.id)
         matched == FindOne(tasks, id)
         after == UpdateOne(tasks, id, StripPayload(updateReq.body), updateReq.updatedAt)
     IN /\ tasks' = after
        /\ resp' = [NoResp EXCEPT !.op = "update", !.id = updateReq.id,
                                  !.input = updateReq.body, !.task = matched,
                                  !.status = IF matched # NoTask THEN 200 ELSE 404,
                                  !.modifiedCount = IF after # tasks THEN 1 ELSE 0]
        /\ pristine' = {e \in pristine : e.taskId # id}
  /\ updateReq' = IdleUpdate
  /\ UNCHANGED <<bids, now, nextOid, createReq, bidReq, listReq, deleted>>

\* ------------------------------------------------- DELETE /api/v1/tasks/:id
\* Mutant of DeleteById: the bids of the deleted task are deleted with it.
DeleteByIdCascade ==
  /\ \E id \in PathParams :
       IF ~IsValid(id)
         THEN /\ resp' = [NoResp EXCEPT !.op = "delete", !.id = id, !.status = 400]
              /\ UNCHANGED <<tasks, bids, deleted, pristine>>
         ELSE LET deletedCount == DeletedCount(tasks, ObjectId(id)) IN
              /\ tasks' = DeleteOne(tasks, ObjectId(id))
              /\ bids' = SelectSeq(bids, LAMBDA bid : bid.taskId # ObjectId(id))
              /\ resp' = [NoResp EXCEPT !.op = "delete", !.id = id,
                                        !.status = IF deletedCount = 0 THEN 404 ELSE 204]
              /\ deleted' = IF deletedCount = 0 THEN deleted ELSE deleted \cup {id}
              /\ pristine' = {e \in pristine : e.taskId # ObjectId(id)}
  /\ UNCHANGED <<now, nextOid, createReq, updateReq, bidReq, listReq>>

\* The whole handler: the id check, deleteOne, and the answer.
DeleteById ==
  /\ \E id \in PathParams :
       IF ~IsValid(id)
         THEN /\ resp' = [NoResp EXCEPT !.op = "delete", !.id = id, !.status = 400]
              /\ UNCHANGED <<tasks, deleted, pristine>>
         ELSE LET deletedCount == DeletedCount(tasks, ObjectId(id)) IN
              /\ tasks' = DeleteOne(tasks, ObjectId(id))
              /\ resp' = [NoResp EXCEPT !.op = "delete", !.id = id,
                                        !.status = IF deletedCount = 0 THEN 404 ELSE 204]
              /\ deleted' = IF deletedCount = 0 THEN deleted ELSE deleted \cup {id}
              /\ pristine' = {e \in pristine : e.taskId # ObjectId(id)}
  /\ UNCHANGED <<bids, now, nextOid, createReq, updateReq, bidReq, listReq>>

\* ------------------------------------------------------------------ clock
Tick ==
  /\ now < MaxTime
  /\ now' = now + 1
  /\ UNCHANGED <<tasks, bids, nextOid, ops, createReq, updateReq, bidReq, listReq,
                 resp, deleted, pristine>>

\* ------------------------------------- POST /api/v1/tasks/:taskId/bids
requiredBidFields == {"biddingAmount", "bidderEmail"}

missingBidFields(bidData) == {f \in requiredBidFields : Falsy(bidData[f])}

\* Mutant of SelfBid: the bidder is compared with the creator's name.
SelfBidByName(task, bidData) == task.creatorName = bidData.bidderEmail

\* task.creatorEmail === bidData.bidderEmail
SelfBid(task, bidData) == task.creatorEmail = bidData.bidderEmail

\* Mutant of DeadlinePassed: the start of the day is compared, as in Create.
DeadlinePassedByDay(task, t) == DateGT(StartOfDay(t), ParseDate(task.deadline))

\* now > taskDeadline
DeadlinePassed(task, t) == DateGT(t, ParseDate(task.deadline))

\* if (bidData.bidderDeadline) { isNaN(new Date(bidData.bidderDeadline)) }
BadBidderDeadline(bidData) ==
  ~Falsy(bidData.bidderDeadline) /\ IsNaN(ParseDate(bidData.bidderDeadline))

\* Mutant of BidCheckStatus: the task's existence is not checked.
BidCheckStatusNoExistence(task, bidData, t) ==
  IF SelfBid(task, bidData) THEN 403
  ELSE IF DeadlinePassed(task, t) THEN 403
  ELSE IF missingBidFields(bidData) # {} THEN 400
  ELSE IF NotPositiveNumber(bidData.biddingAmount) THEN 400
  ELSE IF BadBidderDeadline(bidData) THEN 400
  ELSE 0

\* Mutant of BidCheckMessage: the payload is validated before the task's
\* owner and deadline are looked at.
BidCheckMessagePayloadFirst(task, bidData, t) ==
  IF task = NoTask THEN "Task not found. Cannot place bid."
  ELSE IF missingBidFields(bidData) # {} THEN "Missing required bid fields"
  ELSE IF NotPositiveNumber(bidData.biddingAmount)
    THEN "Bidding amount must be a positive number."
  ELSE IF BadBidderDeadline(bidData)
    THEN "Bidder deadline must be a valid date format if provided."
  ELSE IF SelfBid(task, bidData) THEN "You cannot bid on your own task."
  ELSE IF DeadlinePassed(task, t)
    THEN "The deadline for bidding on this task has passed."
  ELSE ""

\* The message of the first check after findOne that fails, in the order of
\* the handler's if statements; "" when they all pass.
BidCheckMessage(task, bidData, t) ==
  IF task = NoTask THEN "Task not found. Cannot place bid."
  ELSE IF SelfBid(task, bidData) THEN "You cannot bid on your own task."
  ELSE IF DeadlinePassed(task, t)
    THEN "The deadline for bidding on this task has passed."
  ELSE IF missingBidFields(bidData) # {} THEN "Missing required bid fields"
  ELSE IF NotPositiveNumber(bidData.biddingAmount)
    THEN "Bidding amount must be a positive number."
  ELSE IF BadBidderDeadline(bidData)
    THEN "Bidder deadline must be a valid date format if provided."
  ELSE ""

\* The status the checks after findOne end with, 0 when they all pass.
BidCheckStatus(task, bidData, t) ==
  LET message == BidCheckMessage(task, bidData, t)
  IN CASE message = "" -> 0
       [] message = "Task not found. Cannot place bid." -> 404
       [] message \in {"You cannot bid on your own task.",
                       "The deadline for bidding on this task has passed."} -> 403
       [] OTHER -> 400

newBid(taskId, bidData, t, oid) ==
  [_id |-> ObjectId(oid), taskId |-> ObjectId(taskId),
   bidderEmail |-> bidData.bidderEmail, biddingAmount |-> bidData.biddingAmount,
   bidderDeadline |-> bidData.bidderDeadline, comment |-> bidData.comment,
   status |-> "pending", bidPlacedAt |-> t]

\* The handler up to its first await, and the store's findOne.
BidFindOne(b, inputs) ==
  /\ bidReq[b].pc = "idle"
  /\ \E taskId \in PathParams, bidData \in inputs :
       IF ~IsValid(taskId)
         THEN /\ resp' = [NoResp EXCEPT !.op = "bid", !.id = taskId,
                                        !.bidData = bidData, !.status = 400,
                                        !.message = "Invalid Task ID format."]
              /\ UNCHANGED bidReq
         ELSE /\ bidReq' = [bidReq EXCEPT ![b] =
                              [IdleBid EXCEPT !.pc = "check", !.taskId = taskId,
                                              !.body = bidData,
                                              !.task = FindOne(tasks, ObjectId(taskId)),
                                              !.bidsSeen = Len(bids)]]
              /\ resp' = NoResp
  /\ UNCHANGED <<tasks, bids, now, nextOid, createReq, updateReq, listReq, deleted,
                 pristine>>

\* The continuation after findOne: every check, then insertOne issued.
BidCheck(b) ==
  /\ bidReq[b].pc = "check"
  /\ LET r == bidReq[b]
         st == BidCheckStatus(r.task, r.body, now)
     IN IF st # 0
          THEN /\ resp' = [NoResp EXCEPT !.op = "bid", !.id = r.taskId,
                                         !.bidData = r.body, !.task = r.task,
                                         !.checkTime = now, !.status = st,
                                         !.message = BidCheckMessage(r.task, r.body, now)]
               /\ bidReq' = [bidReq EXCEPT ![b] = IdleBid]
          ELSE /\ bidReq' = [bidReq EXCEPT ![b] =
                               [r EXCEPT !.pc = "insertOne", !.checkTime = now,
                                         !.placedAt = now]]
               /\ UNCHANGED resp
  /\ UNCHANGED <<tasks, bids, now, nextOid, createReq, updateReq, listReq, deleted,
                 pristine>>

\* Mutant of BidInsertOne: the insert is conditional on the task still being
\* stored, and the request is answered 404 when it is gone.
BidInsertOneIfTaskExists(b) ==
  /\ bidReq[b].pc = "insertOne"
  /\ LET r == bidReq[b]
         bid == newBid(r.taskId, r.body, r.placedAt, nextOid)
         gone == FindOne(tasks, ObjectId(r.taskId)) = NoTask
     IN /\ bids' = IF gone THEN bids ELSE Append(bids, bid)
        /\ resp' = [NoResp EXCEPT !.op = "bid", !.id = r.taskId, !.bidData = r.body,
                                  !.task = r.task, !.checkTime = r.checkTime,
                                  !.status = IF gone THEN 404 ELSE 201,
                                  !.taskId = IF gone THEN NoId ELSE bid._id]
  /\ bidReq' = [bidReq EXCEPT ![b] = IdleBid]
  /\ nextOid' = nextOid + 1
  /\ UNCHANGED <<tasks, now, createReq, updateReq, listReq, deleted, pristine>>

\* Mutant of BidInsertOne: one bid per bidder and task, as under a unique
\* index on (taskId, bidderEmail); a second one is answered 409.
BidInsertOneUniqueBidder(b) ==
  /\ bidReq[b].pc = "insertOne"
  /\ LET r == bidReq[b]
         bid == newBid(r.taskId, r.body, r.placedAt, nextOid)
         taken == \E i \in DOMAIN bids :
                    /\ bids[i].taskId = bid.taskId
                    /\ bids[i].bidderEmail = bid.bidderEmail
     IN /\ bids' = IF taken THEN bids ELSE Append(bids, bid)
        /\ resp' = [NoResp EXCEPT !.op = "bid", !.id = r.taskId, !.bidData = r.body,
                                  !.task = r.task, !.checkTime = r.checkTime,
                                  !.status = IF taken THEN 409 ELSE 201,
                                  !.taskId = IF taken THEN NoId ELSE bid._id,
                                  !.bidsSeen = r.bidsSeen]
  /\ bidReq' = [bidReq EXCEPT ![b] = IdleBid]
  /\ nextOid' = nextOid + 1
  /\ UNCHANGED <<tasks, now, createReq, updateReq, listReq, deleted, pristine>>

\* The store executes insertOne; the handler answers 201.
BidInsertOne(b) ==
  /\ bidReq[b].pc = "insertOne"
  /\ LET r == bidReq[b]
         bid == newBid(r.taskId, r.body, r.placedAt, nextOid)
     IN /\ bids' = Append(bids, bid)
        /\ resp' = [NoResp EXCEPT !.op = "bid", !.id = r.taskId, !.bidData = r.body,
                                  !.task = r.task, !.checkTime = r.checkTime,
                                  !.status = 201, !.taskId = bid._id,
                                  !.bidsSeen = r.bidsSeen,
                                  !.message = "Bid placed successfully"]
  /\ bidReq' = [bidReq EXCEPT ![b] = IdleBid]
  /\ nextOid' = nextOid + 1
  /\ UNCHANGED <<tasks, now, createReq, updateReq, listReq, deleted, pristine>>

\* ------------------------------------------------- GET /api/v1/tasks
\* The query strings ?page= and ?limit= are tried with.
PageParams == {Undefined, "-1", "2"}
LimitParams == {Undefined, "abc", "0", "-2", "2"}

\* parseInt(x): NaN for an absent or non-numeric string
ParseInt(x) ==
  CASE x = "-2" -> 0 - 2
    [] x = "-1" -> 0 - 1
    [] x = "0" -> 0
    [] x = "2" -> 2
    [] OTHER -> NaN

IsNaNInt(x) == x \notin {"-2", "-1", "0", "2"}

\* parseInt(x) || dflt: NaN and 0 are falsy
ParseIntOr(x, dflt) == IF IsNaNInt(x) \/ ParseInt(x) = 0 THEN dflt ELSE ParseInt(x)

DefaultPage == 1
DefaultLimit == 10

\* Mutant of MathCeilDiv: Math.floor instead of Math.ceil.
MathFloorDiv(a, b) == IF b > 0 THEN a \div b ELSE 0 - ((a + (0 - b) - 1) \div (0 - b))

\* Math.ceil(a / b) for a >= 0 and b # 0
MathCeilDiv(a, b) == IF b > 0 THEN (a + b - 1) \div b ELSE 0 - (a \div (0 - b))

\* BSON order of the stored deadline strings: byte-wise comparison
StringOrder == <<"2026-11-01", "2026-11-02", "Nov 1, 2026", "not a date">>
StringRank(x) == CHOOSE i \in DOMAIN StringOrder : StringOrder[i] = x

\* Inserts a document into a sequence sorted by { deadline: 1 }, after the
\* documents that compare equal.
InsertSorted(sorted, doc) ==
  LET before == {i \in DOMAIN sorted :
                   StringRank(sorted[i].deadline) <= StringRank(doc.deadline)}
      k == Cardinality(before)
  IN SubSeq(sorted, 1, k) \o <<doc>> \o SubSeq(sorted, k + 1, Len(sorted))

RECURSIVE SortByDeadline(_)
\* find({}).sort({ deadline: 1 })
SortByDeadline(coll) ==
  IF coll = <<>> THEN <<>>
  ELSE InsertSorted(SortByDeadline(SubSeq(coll, 1, Len(coll) - 1)), coll[Len(coll)])

Min(a, b) == IF a < b THEN a ELSE b

\* cursor.skip(n).limit(m): a negative limit is a limit of its absolute value
SkipLimit(sorted, skip, limit) ==
  LET m == IF limit < 0 THEN 0 - limit ELSE limit
  IN SubSeq(sorted, skip + 1, Min(Len(sorted), skip + m))

\* The handler up to its first await, and the store's countDocuments.
ListCount ==
  /\ listReq.pc = "idle"
  /\ \E page \in PageParams, limit \in LimitParams :
       listReq' = [pc |-> "find", pageParam |-> page, limitParam |-> limit,
                   totalTasks |-> Len(tasks)]
  /\ resp' = NoResp
  /\ UNCHANGED <<tasks, bids, now, nextOid, createReq, updateReq, bidReq, deleted,
                 pristine>>

\* The store executes find; the handler answers 200, or 500 from its catch
\* when the store rejects a negative skip.
ListFind ==
  /\ listReq.pc = "find"
  /\ LET page == ParseIntOr(listReq.pageParam, DefaultPage)
         limit == ParseIntOr(listReq.limitParam, DefaultLimit)
         skip == (page - 1) * limit
         r == [NoResp EXCEPT !.op = "list", !.pageParam = listReq.pageParam,
                             !.limitParam = listReq.limitParam, !.limit = limit,
                             !.currentPage = page, !.stored = Len(tasks)]
     IN resp' =
          IF skip < 0
            THEN [r EXCEPT !.status = 500]
            ELSE [r EXCEPT !.status = 200,
                           !.tasks = SkipLimit(SortByDeadline(tasks), skip, limit),
                           !.totalTasks = listReq.totalTasks,
                           !.totalPages = MathCeilDiv(listReq.totalTasks, limit)]
  /\ listReq' = IdleList
  /\ UNCHANGED <<tasks, bids, now, nextOid, createReq, updateReq, bidReq, deleted,
                 pristine>>

\* ------------------------------------------------- GET /api/v1/featured-tasks
FeaturedLimit == 6

\* The answer of the handler: find, sorted and limited.
ListFeaturedResponse ==
  [NoResp EXCEPT !.op = "featured", !.status = 200,
                 !.tasks = SkipLimit(SortByDeadline(tasks), 0, FeaturedLimit),
                 !.stored = Len(tasks)]

\* The whole handler.
ListFeatured ==
  /\ resp' = ListFeaturedResponse
  /\ UNCHANGED <<tasks, bids, now, nextOid, createReq, updateReq, bidReq, listReq,
                 deleted, pristine>>

\* ------------------------------------- GET /api/v1/tasks/:taskId/bids
\* The :taskId values the route is tried with: the malformed one, the ids of
\* PathParams, and a well-formed id no task ever had.
BidListParams == 0 .. MaxIds + 1

\* Mutant of BidsOfTask: the filter is left out.
BidsOfAnyTask(coll, taskId) == coll

\* bidsCollection.find({ taskId: new ObjectId(taskId) })
BidsOfTask(coll, taskId) == SelectSeq(coll, LAMBDA bid : bid.taskId = ObjectId(taskId))

\* Inserts a bid into a sequence sorted by { bidPlacedAt: -1 }, after the bids
\* that compare equal.
InsertSortedDesc(sorted, bid) ==
  LET before == {i \in DOMAIN sorted : sorted[i].bidPlacedAt >= bid.bidPlacedAt}
      k == Cardinality(before)
  IN SubSeq(sorted, 1, k) \o <<bid>> \o SubSeq(sorted, k + 1, Len(sorted))

RECURSIVE SortByPlacedAtDesc(_)
\* cursor.sort({ bidPlacedAt: -1 })
SortByPlacedAtDesc(coll) ==
  IF coll = <<>> THEN <<>>
  ELSE InsertSortedDesc(SortByPlacedAtDesc(SubSeq(coll, 1, Len(coll) - 1)),
                        coll[Len(coll)])

\* The answer of the handler for the path parameter taskId: the id check,
\* find, and 200 with the array, empty or not.
ListByTaskResponse(taskId) ==
  IF ~IsValid(taskId)
    THEN [NoResp EXCEPT !.op = "listByTask", !.id = taskId, !.status = 400]
    ELSE [NoResp EXCEPT !.op = "listByTask", !.id = taskId, !.status = 200,
                        !.bids = SortByPlacedAtDesc(BidsOfTask(bids, taskId))]

\* The whole handler, for any :taskId.
ListByTask ==
  /\ \E taskId \in BidListParams : resp' = ListByTaskResponse(taskId)
  /\ UNCHANGED <<tasks, bids, now, nextOid, createReq, updateReq, bidReq, listReq,
                 deleted, pristine>>

\* ----------------------------- GET /api/v1/tasks/my-posted-tasks, /my-bids
\* Inserts a task into a sequence sorted by { createdAt: -1 }, after the tasks
\* that compare equal.
InsertSortedByCreatedAt(sorted, doc) ==
  LET before == {i \in DOMAIN sorted : sorted[i].createdAt >= doc.createdAt}
      k == Cardinality(before)
  IN SubSeq(sorted, 1, k) \o <<doc>> \o SubSeq(sorted, k + 1, Len(sorted))

RECURSIVE SortByCreatedAtDesc(_)
\* cursor.sort({ createdAt: -1 })
SortByCreatedAtDesc(coll) ==
  IF coll = <<>> THEN <<>>
  ELSE InsertSortedByCreatedAt(SortByCreatedAtDesc(SubSeq(coll, 1, Len(coll) - 1)),
                               coll[Len(coll)])

\* The answer of the my-posted-tasks handler for the query parameter
\* creatorEmail: 400 without it, else the creator's tasks, newest first.
ListByCreatorResponse(creatorEmail) ==
  IF Falsy(creatorEmail)
    THEN [NoResp EXCEPT !.op = "listByCreator", !.creatorEmail = creatorEmail,
                        !.status = 400]
    ELSE [NoResp EXCEPT !.op = "listByCreator", !.creatorEmail = creatorEmail,
                        !.status = 200,
                        !.tasks = SortByCreatedAtDesc(
                                    SelectSeq(tasks,
                                              LAMBDA t : t.creatorEmail = creatorEmail))]

\* The answer of the my-bids handler for the query parameter bidderEmail.
ListByBidderResponse(bidderEmail) ==
  IF Falsy(bidderEmail)
    THEN [NoResp EXCEPT !.op = "listByBidder", !.creatorEmail = bidderEmail,
                        !.status = 400]
    ELSE [NoResp EXCEPT !.op = "listByBidder", !.creatorEmail = bidderEmail,
                        !.status = 200,
                        !.bids = SortByPlacedAtDesc(
                                   SelectSeq(bids,
                                             LAMBDA b : b.bidderEmail = bidderEmail))]

\* ------------------------------------------------------------------ routing
\* A path is the sequence of its segments.  Express tries the routes in the
\* order of their registration and runs the first whose method and pattern
\* match; a segment of a pattern that starts with ":" matches any segment.
RouteParams == {":id", ":taskId"}

\* Mutant of Routes: the :id route is registered before the literal
\* my-posted-tasks route.
RoutesIdFirst ==
  <<[method |-> "GET", pattern |-> <<>>, handler |-> "Root"],
    [method |-> "POST", pattern |-> <<"api", "v1", "tasks">>, handler |-> "Create"],
    [method |-> "GET", pattern |-> <<"api", "v1", "tasks">>, handler |-> "List"],
    [method |-> "GET", pattern |-> <<"api", "v1", "featured-tasks">>,
     handler |-> "ListFeatured"],
    [method |-> "GET", pattern |-> <<"api", "v1", "tasks", ":id">>, handler |-> "GetById"],
    [method |-> "GET", pattern |-> <<"api", "v1", "tasks", "my-posted-tasks">>,
     handler |-> "ListByCreator"],
    [method |-> "PUT", pattern |-> <<"api", "v1", "tasks", ":id">>, handler |-> "Update"],
    [method |-> "DELETE", pattern |-> <<"api", "v1", "tasks", ":id">>,
     handler |-> "DeleteById"],
    [method |-> "POST", pattern |-> <<"api", "v1", "tasks", ":taskId", "bids">>,
     handler |-> "BidCreate"],
    [method |-> "GET", pattern |-> <<"api", "v1", "tasks", ":taskId", "bids">>,
     handler |-> "ListByTask"],
    [method |-> "GET", pattern |-> <<"api", "v1", "my-bids">>, handler |-> "ListByBidder"]>>

\* The app.get/post/put/delete calls of run(), in source order.
Routes ==
  <<[method |-> "GET", pattern |-> <<>>, handler |-> "Root"],
    [method |-> "POST", pattern |-> <<"api", "v1", "tasks">>, handler |-> "Create"],
    [method |-> "GET", pattern |-> <<"api", "v1", "tasks">>, handler |-> "List"],
    [method |-> "GET", pattern |-> <<"api", "v1", "tasks", "my-posted-tasks">>,
     handler |-> "ListByCreator"],
    [method |-> "GET", pattern |-> <<"api", "v1", "featured-tasks">>,
     handler |-> "ListFeatured"],
    [method |-> "GET", pattern |-> <<"api", "v1", "tasks", ":id">>, handler |-> "GetById"],
    [method |-> "PUT", pattern |-> <<"api", "v1", "tasks", ":id">>, handler |-> "Update"],
    [method |-> "DELETE", pattern |-> <<"api", "v1", "tasks", ":id">>,
     handler |-> "DeleteById"],
    [method |-> "POST", pattern |-> <<"api", "v1", "tasks", ":taskId", "bids">>,
     handler |-> "BidCreate"],
    [method |-> "GET", pattern |-> <<"api", "v1", "tasks", ":taskId", "bids">>,
     handler |-> "ListByTask"],
    [method |-> "GET", pattern |-> <<"api", "v1", "my-bids">>, handler |-> "ListByBidder"]>>

\* The pattern matches the path, segment by segment.
Matches(pattern, path) ==
  /\ Len(pattern) = Len(path)
  /\ \A i \in DOMAIN pattern : pattern[i] \in RouteParams \/ pattern[i] = path[i]

\* The handler Express runs for the request: the first matching route, or
\* none (Express answers 404 itself).
Dispatch(method, path) ==
  LET hits == {i \in DOMAIN Routes :
                 Routes[i].method = method /\ Matches(Routes[i].pattern, path)}
  IN IF hits = {} THEN "none"
     ELSE Routes[CHOOSE i \in hits : \A j \in hits : i <= j].handler

\* The text of the first identifier as a path segment.
IdSegment == "000000000000000000000001"

\* req.params of a segment: the n-th identifier's text is n, any other text
\* is no ObjectId.
ParamOf(segment) == IF segment = IdSegment THEN 1 ELSE BadParam

\* The GET requests the router is tried with: paths and query strings.
GetPaths ==
  {<<>>,
   <<"api", "v1", "tasks">>,
   <<"api", "v1", "tasks", "my-posted-tasks">>,
   <<"api", "v1", "tasks", IdSegment>>,
   <<"api", "v1", "tasks", "featured-tasks">>,
   <<"api", "v1", "featured-tasks">>,
   <<"api", "v1", "my-posted-tasks">>,
   <<"api", "v1", "tasks", IdSegment, "bids">>,
   <<"api", "v1", "tasks", "my-posted-tasks", "bids">>,
   <<"api", "v1", "my-bids">>}

QueryEmails == {Undefined, "a@x.com", "b@x.com"}

\* The answer of a handler that is one store operation long.
Response(handler, path, email) ==
  CASE handler = "Root" -> [NoResp EXCEPT !.op = "root", !.status = 200]
    [] handler = "ListByCreator" -> ListByCreatorResponse(email)
    [] handler = "ListFeatured" -> ListFeaturedResponse
    [] handler = "GetById" -> GetByIdResponse(ParamOf(path[4]))
    [] handler = "ListByTask" -> ListByTaskResponse(ParamOf(path[4]))
    [] handler = "ListByBidder" -> ListByBidderResponse(email)
    [] OTHER -> [NoResp EXCEPT !.op = "notFound", !.status = 404]

\* A GET request arrives and Express dispatches it; the List handler awaits
\* countDocuments, every other handler answers after its one operation.
RouteGet ==
  \E path \in GetPaths, email \in QueryEmails :
    LET handler == Dispatch("GET", path) IN
    IF handler = "List"
      THEN ListCount
      ELSE /\ resp' = [Response(handler, path, email) EXCEPT !.path = path]
           /\ UNCHANGED <<tasks, bids, now, nextOid, createReq, updateReq, bidReq,
                          listReq, deleted, pristine>>

\* ------------------------------------------------------ store failures
\* An awaited store operation rejects (the connection drops, the server
\* answers with an error): the operation is not applied, the handler's catch
\* block logs the error and answers 500.  One action per awaited operation.

\* Mutant of CreateInsertOneFails: the rejected insertOne is issued again, and
\* applied, before the 500 is sent.
CreateInsertOneFailsRetried ==
  /\ createReq.pc = "insertOne"
  /\ resp' = [NoResp EXCEPT !.op = "create", !.input = createReq.input,
                            !.checkTime = createReq.doc.createdAt, !.status = 500]
  /\ tasks' = Append(tasks, InsertedDoc(createReq.doc, nextOid))
  /\ createReq' = IdleCreate
  /\ nextOid' = nextOid + 1
  /\ UNCHANGED <<bids, now, updateReq, bidReq, listReq, deleted, pristine>>

\* insertOne of POST /api/v1/tasks rejects; the driver had generated the _id.
CreateInsertOneFails ==
  /\ createReq.pc = "insertOne"
  /\ resp' = [NoResp EXCEPT !.op = "create", !.input = createReq.input,
                            !.checkTime = createReq.doc.createdAt, !.status = 500]
  /\ createReq' = IdleCreate
  /\ nextOid' = IF createReq.doc._id = NoId THEN nextOid + 1 ELSE nextOid
  /\ UNCHANGED <<tasks, bids, now, updateReq, bidReq, listReq, deleted, pristine>>

\* findOne of GET /api/v1/tasks/:id rejects.
GetByIdFails ==
  /\ \E id \in PathParams :
       /\ IsValid(id)
       /\ resp' = [NoResp EXCEPT !.op = "get", !.id = id, !.status = 500]
  /\ UNCHANGED <<tasks, bids, now, nextOid, createReq, updateReq, bidReq, listReq,
                 deleted, pristine>>

\* updateOne of PUT /api/v1/tasks/:id rejects.
UpdateOneFails ==
  /\ updateReq.pc = "updateOne"
  /\ resp' = [NoResp EXCEPT !.op = "update", !.id = updateReq.id,
                            !.input = updateReq.body, !.status = 500]
  /\ updateReq' = IdleUpdate
  /\ UNCHANGED <<tasks, bids, now, nextOid, createReq, bidReq, listReq, deleted,
                 pristine>>

\* deleteOne of DELETE /api/v1/tasks/:id rejects.
DeleteByIdFails ==
  /\ \E id \in PathParams :
       /\ IsValid(id)
       /\ resp' = [NoResp EXCEPT !.op = "delete", !.id = id, !.status = 500]
  /\ UNCHANGED <<tasks, bids, now, nextOid, createReq, updateReq, bidReq, listReq,
                 deleted, pristine>>

\* findOne of POST /api/v1/tasks/:taskId/bids rejects.
BidFindOneFails(b, inputs) ==
  /\ bidReq[b].pc = "idle"
  /\ \E taskId \in PathParams, bidData \in inputs :
       /\ IsValid(taskId)
       /\ resp' = [NoResp EXCEPT !.op = "bid", !.id = taskId, !.bidData = bidData,
                                 !.status = 500]
  /\ UNCHANGED <<tasks, bids, now, nextOid, createReq, updateReq, bidReq, listReq,
                 deleted, pristine>>

\* insertOne of POST /api/v1/tasks/:taskId/bids rejects; the driver had
\* generated the _id.
BidInsertOneFails(b) ==
  /\ bidReq[b].pc = "insertOne"
  /\ LET r == bidReq[b]
     IN resp' = [NoResp EXCEPT !.op = "bid", !.id = r.taskId, !.bidData = r.body,
                               !.task = r.task, !.checkTime = r.checkTime,
                               !.status = 500, !.bidsSeen = r.bidsSeen]
  /\ bidReq' = [bidReq EXCEPT ![b] = IdleBid]
  /\ nextOid' = nextOid + 1
  /\ UNCHANGED <<tasks, bids, now, createReq, updateReq, listReq, deleted, pristine>>

\* countDocuments of GET /api/v1/tasks rejects.
ListCountFails ==
  /\ listReq.pc = "idle"
  /\ \E page \in PageParams, limit \in LimitParams :
       resp' = [NoResp EXCEPT !.op = "list", !.pageParam = page, !.limitParam = limit,
                              !.limit = ParseIntOr(limit, DefaultLimit),
                              !.currentPage = ParseIntOr(page, DefaultPage),
                              !.stored = Len(tasks), !.status = 500]
  /\ UNCHANGED <<tasks, bids, now, nextOid, createReq, updateReq, bidReq, listReq,
                 deleted, pristine>>

\* find of GET /api/v1/tasks rejects.
ListFindFails ==
  /\ listReq.pc = "find"
  /\ resp' = [NoResp EXCEPT !.op = "list", !.pageParam = listReq.pageParam,
                            !.limitParam = listReq.limitParam,
                            !.limit = ParseIntOr(listReq.limitParam, DefaultLimit),
                            !.currentPage = ParseIntOr(listReq.pageParam, DefaultPage),
                            !.stored = Len(tasks), !.status = 500]
  /\ listReq' = IdleList
  /\ UNCHANGED <<tasks, bids, now, nextOid, createReq, updateReq, bidReq, deleted,
                 pristine>>

\* find of GET /api/v1/tasks/:taskId/bids rejects.
ListByTaskFails ==
  /\ \E taskId \in BidListParams :
       /\ IsValid(taskId)
       /\ resp' = [NoResp EXCEPT !.op = "listByTask", !.id = taskId, !.status = 500]
  /\ UNCHANGED <<tasks, bids, now, nextOid, createReq, updateReq, bidReq, listReq,
                 deleted, pristine>>

\* find of GET /api/v1/featured-tasks rejects.
ListFeaturedFails ==
  /\ resp' = [NoResp EXCEPT !.op = "featured", !.status = 500, !.stored = Len(tasks)]
  /\ UNCHANGED <<tasks, bids, now, nextOid, createReq, updateReq, bidReq, listReq,
                 deleted, pristine>>

\* ------------------------------------------------------------ specification
\* A request with a body arrives: at most MaxOps of them are received.
Received(A) == ops < MaxOps /\ ops' = ops + 1 /\ A

\* A request in flight moves on, or a request without a body is served.
Continued(A) == ops' = ops /\ A

\* The task routes: create, read, update and delete, interleaved.
Next ==
  \/ Received(CreateReceive(TaskInputs))
  \/ Continued(CreateInsertOne)
  \/ Continued(GetById)
  \/ Received(UpdateReceive(UpdatePayloads))
  \/ Continued(UpdateOneStep)
  \/ Continued(DeleteById)
  \/ Tick

Spec == Init /\ [][Next]_vars

\* The bid route, one request at a time, against tasks that are created,
\* updated and deleted meanwhile.
BidTaskInputs ==
  {BaseTask,
   [BaseTask EXCEPT !.deadline = "2026-11-01"],
   [BaseTask EXCEPT !.creatorEmail = "b@x.com", !.creatorName = "Bob"]}

BidUpdatePayloads ==
  {[NoBody EXCEPT !.deadline = "2026-11-01"],
   [NoBody EXCEPT !.deadline = "not a date"],
   [NoBody EXCEPT !.creatorEmail = "b@x.com"]}

NextBid ==
  \/ Received(CreateReceive(BidTaskInputs))
  \/ Continued(CreateInsertOne)
  \/ Received(UpdateReceive(BidUpdatePayloads))
  \/ Continued(UpdateOneStep)
  \/ Continued(DeleteById)
  \/ Received(BidFindOne(1, BidInputs))
  \/ Continued(BidCheck(1))
  \/ Continued(BidInsertOne(1))
  \/ Tick

SpecBid == Init /\ [][NextBid]_vars

\* Two bid requests in flight at once, against one creator's tasks.
ConcurrentBidInputs ==
  {BaseBid,
   [BaseBid EXCEPT !.bidderEmail = "a@x.com"],
   [BaseBid EXCEPT !.biddingAmount = Undefined]}

ConcurrentBidTasks == {BaseTask, [BaseTask EXCEPT !.deadline = "2026-11-01"]}

NextConcurrentBids ==
  \/ Received(CreateReceive(ConcurrentBidTasks))
  \/ Continued(CreateInsertOne)
  \/ Continued(DeleteById)
  \/ \E b \in Bidders : Received(BidFindOne(b, ConcurrentBidInputs))
  \/ \E b \in Bidders : Continued(BidCheck(b))
  \/ \E b \in Bidders : Continued(BidInsertOne(b))
  \/ Tick

SpecConcurrentBids == Init /\ [][NextConcurrentBids]_vars

\* Bids are placed at different times on a task that is created and deleted,
\* and listed.
NextBidList ==
  \/ Received(CreateReceive({BaseTask}))
  \/ Continued(CreateInsertOne)
  \/ Continued(DeleteById)
  \/ Received(BidFindOne(1, {BaseBid, [BaseBid EXCEPT !.biddingAmount = "50"]}))
  \/ Continued(BidCheck(1))
  \/ Continued(BidInsertOne(1))
  \/ Continued(ListByTask)
  \/ Tick

SpecBidList == Init /\ [][NextBidList]_vars

\* GET requests are dispatched over tasks of two creators.
RouteTaskInputs ==
  {BaseTask, [BaseTask EXCEPT !.creatorEmail = "b@x.com", !.creatorName = "Bob"]}

NextRoute ==
  \/ Received(CreateReceive(RouteTaskInputs))
  \/ Continued(CreateInsertOne)
  \/ Continued(RouteGet)
  \/ Continued(ListFind)

SpecRoute == Init /\ [][NextRoute]_vars

\* Every awaited store operation of the modelled routes may reject.
FailTaskInputs == {BaseTask, [BaseTask EXCEPT !._id = StringId(1)]}
FailUpdatePayloads == {[NoBody EXCEPT !.budget = "75"]}
FailBidInputs == {BaseBid, [BaseBid EXCEPT !.bidderEmail = "a@x.com"]}

NextFail ==
  \/ Received(CreateReceive(FailTaskInputs))
  \/ Continued(CreateInsertOne)
  \/ Continued(CreateInsertOneFails)
  \/ Continued(GetById)
  \/ Continued(GetByIdFails)
  \/ Received(UpdateReceive(FailUpdatePayloads))
  \/ Continued(UpdateOneStep)
  \/ Continued(UpdateOneFails)
  \/ Continued(DeleteById)
  \/ Continued(DeleteByIdFails)
  \/ Received(BidFindOne(1, FailBidInputs))
  \/ Received(BidFindOneFails(1, FailBidInputs))
  \/ Continued(BidCheck(1))
  \/ Continued(BidInsertOne(1))
  \/ Continued(BidInsertOneFails(1))
  \/ Continued(ListByTask)
  \/ Continued(ListByTaskFails)
  \/ Continued(ListCount)
  \/ Continued(ListCountFails)
  \/ Continued(ListFind)
  \/ Continued(ListFindFails)
  \/ Continued(ListFeatured)
  \/ Continued(ListFeaturedFails)

SpecFail == Init /\ [][NextFail]_vars

\* The list routes over a growing collection of up to MaxListTasks tasks.
ListTaskInputs == {BaseTask, [BaseTask EXCEPT !.deadline = "Nov 1, 2026"]}

\* A task is posted while the collection is below its bound.
Seeded(A) == Len(tasks) < MaxListTasks /\ ops' = ops /\ A

NextList ==
  \/ Seeded(CreateReceive(ListTaskInputs))
  \/ Continued(CreateInsertOne)
  \/ Continued(ListCount)
  \/ Continued(ListFind)
  \/ Continued(ListFeatured)

SpecList == Init /\ [][NextList]_vars

\* ===================================================================== claims
\* The task a stored document was posted as: its JSON fields.
BodyOf(task) ==
  [_id |-> task._id, title |-> task.title, category |-> task.category,
   budget |-> task.budget, deadline |-> task.deadline,
   description |-> task.description, creatorEmail |-> task.creatorEmail,
   creatorName |-> task.creatorName]

C4_CreateThenGet ==
  /\ (resp.op = "create" /\ ~CreateRejects(resp.input, resp.checkTime))
       => resp.status = 201
  /\ resp.op = "get" =>
       \A e \in resp.created :
         /\ resp.status = 200
         /\ resp.task._id = e.taskId
         /\ [BodyOf(resp.task) EXCEPT !._id = NoId] = [e.input EXCEPT !._id = NoId]
         /\ resp.task.createdAt # NoTimestamp

\* C5: a GetById served after a DELETE of the same id answered 204 is
\* answered 404.
C5_DeletedStaysGone == (resp.op = "get" /\ resp.afterDelete) => resp.status = 404

\* A GetById of a deleted id was served while a task posted after the
\* deletion is stored.
C5_Witness ==
  /\ resp.op = "get"
  /\ resp.afterDelete
  /\ resp.status = 404
  /\ \E i \in DOMAIN tasks : tasks[i]._id.type = "ObjectId"

\* The conditions C9 names, on a body and the time it is received at.
C9_FieldMissing(body) == \E f \in JsonTaskFields : body[f] \in {Undefined, "", "0"}
C9_BudgetBad(body) == body.budget \notin {"20", "50", "75"}
C9_CategoryBad(body) ==
  body.category \notin
    {"Web Development", "Graphic Design", "Digital Marketing",
     "Writing & Translation", "Video & Animation", "General"}
C9_DeadlineBad(body, t) ==
  \/ body.deadline \notin DateStrings
  \/ DateDay(body.deadline) < t \div DayLen
C9_Invalid(body, t) ==
  C9_FieldMissing(body) \/ C9_BudgetBad(body) \/ C9_CategoryBad(body)
    \/ C9_DeadlineBad(body, t)

\* C9: a body that misses a required field, or whose budget is not a positive
\* number, or whose category is not allowed, or whose deadline is no date or
\* lies before the current day, is answered 400 and never inserted; a task is
\* inserted only when none of these holds.
C9_CreateValidation ==
  /\ (resp.op = "create" /\ C9_Invalid(resp.input, resp.checkTime))
       => (resp.status = 400 /\ resp.taskId = NoId)
  /\ createReq.pc = "insertOne"
       => ~C9_Invalid(createReq.input, createReq.doc.createdAt)
  /\ \A i \in DOMAIN tasks :
       (\E e \in pristine : e.taskId = tasks[i]._id)
         => ~C9_Invalid(BodyOf(tasks[i]), tasks[i].createdAt)

\* A task whose deadline is the current day, at a time of day after it, was
\* accepted, and a body with a deadline of the day before was refused.
C9_Witness ==
  /\ resp.op = "create"
  /\ resp.status = 400
  /\ resp.input = [BaseTask EXCEPT !.deadline = "2026-11-01"]
  /\ \E i \in DOMAIN tasks :
       /\ tasks[i].deadline = "2026-11-01"
       /\ tasks[i].createdAt > ParseDate(tasks[i].deadline)

\* C2: a bid whose bidderEmail is the creatorEmail of the task found is
\* answered 403 and no insert is issued for it, whatever its other fields.
C2_SelfBidForbidden ==
  /\ (resp.op = "bid" /\ resp.task # NoTask
        /\ resp.bidData.bidderEmail = resp.task.creatorEmail)
       => (resp.status = 403 /\ resp.taskId = NoId)
  /\ \A b \in Bidders :
       bidReq[b].pc = "insertOne"
         => bidReq[b].body.bidderEmail # bidReq[b].task.creatorEmail

\* A self-bid that also lacks its biddingAmount was answered 403.
C2_Witness ==
  /\ resp.op = "bid"
  /\ resp.status = 403
  /\ resp.task # NoTask
  /\ resp.bidData.bidderEmail = resp.task.creatorEmail
  /\ resp.bidData.biddingAmount = Undefined
  /\ bids = <<>>

\* TRUE when time t is after the date the stored deadline value denotes.
C3_After(t, deadline) == deadline \in DateStrings /\ t > DateDay(deadline) * DayLen

\* C3: a bid checked at a time after the deadline of the task found is
\* answered 403 and no insert is issued for it.
C3_LateBidForbidden ==
  /\ (resp.op = "bid" /\ resp.task # NoTask
        /\ C3_After(resp.checkTime, resp.task.deadline))
       => (resp.status = 403 /\ resp.taskId = NoId)
  /\ \A b \in Bidders :
       bidReq[b].pc = "insertOne"
         => ~C3_After(bidReq[b].checkTime, bidReq[b].task.deadline)

\* A bid by another user was answered 403 on a task whose deadline an update
\* had moved into the past.
C3_Witness ==
  /\ resp.op = "bid"
  /\ resp.status = 403
  /\ resp.task.updatedAt # NoTimestamp
  /\ resp.task.deadline = "2026-11-01"
  /\ resp.bidData = BaseBid
  /\ resp.task.creatorEmail = "a@x.com"
  /\ resp.checkTime > 0

\* C10: a bid with a well-formed taskId whose findOne found no task is
\* answered 404 and no insert is issued for it.
C10_BidOnMissingTask ==
  /\ (resp.op = "bid" /\ IsValid(resp.id) /\ resp.task = NoTask)
       => (resp.status = 404 /\ resp.taskId = NoId)
  /\ \A b \in Bidders : bidReq[b].pc = "insertOne" => bidReq[b].task # NoTask

\* An otherwise valid bid on a task that had been deleted was answered 404.
C10_Witness ==
  /\ resp.op = "bid"
  /\ resp.status = 404
  /\ resp.id \in deleted
  /\ resp.bidData = BaseBid
  /\ bids = <<>>

\* ceil(a / b) for a >= 0 and b # 0, from its definition: the least integer
\* that is not below the quotient.
C6_Ceil(a, b) ==
  CHOOSE q \in (0 - a) .. a :
    IF b > 0 THEN q * b >= a /\ (q - 1) * b < a
    ELSE q * b <= a /\ (q - 1) * b > a

C6_Limit(param) == IF param \in {"-2", "-1", "2"} THEN ParseInt(param) ELSE 10

C7_PositiveDefaults ==
  resp.op = "list"
    => /\ resp.pageParam \notin {"2"} => resp.currentPage = 1
       /\ resp.limitParam \notin {"2"} => resp.limit = 10
       /\ resp.currentPage > 0
       /\ resp.limit > 0

\* C8: the featured tasks are min(6, number of tasks) tasks, in non-decreasing
\* order of their deadline dates, and no task left out has an earlier deadline.
C8_FeaturedSoonest ==
  resp.op = "featured"
    => /\ Len(resp.tasks) = Min(6, resp.stored)
       /\ \A i, j \in DOMAIN resp.tasks :
            i < j => DateDay(resp.tasks[i].deadline) <= DateDay(resp.tasks[j].deadline)
       /\ Len(tasks) = resp.stored
            => \A i \in DOMAIN resp.tasks, k \in DOMAIN tasks :
                 (\A j \in DOMAIN resp.tasks : resp.tasks[j]._id # tasks[k]._id)
                   => DateDay(resp.tasks[i].deadline) <= DateDay(tasks[k].deadline)

\* ---------------------------------------------------------------- C11
\* C11: the bid insert follows the existence check without another look at
\* the tasks collection: a bid request that passed its checks is answered 201
\* and its bid is stored by its next step, whether or not the task is still
\* stored; so a Delete between the check and the insert leaves an orphan bid.
C11_InsertAfterCheck ==
  [][\A b \in Bidders :
       (bidReq[b].pc = "insertOne" /\ bidReq'[b].pc = "idle")
         => /\ resp'.op = "bid"
            /\ resp'.status = 201
            /\ Len(bids') = Len(bids) + 1
            /\ bids'[Len(bids')].taskId = ObjectId(bidReq[b].taskId)
            /\ bids'[Len(bids')]._id = resp'.taskId]_vars

\* The race happened: the task was found by the bid's findOne, a DELETE of it
\* was answered 204, and then the bid was answered 201; its bid references no
\* stored task.
C11_Witness ==
  /\ resp.op = "bid"
  /\ resp.status = 201
  /\ resp.task # NoTask
  /\ resp.id \in deleted
  /\ Len(bids) = 1
  /\ bids[1]._id = resp.taskId
  /\ bids[1].taskId = ObjectId(resp.id)
  /\ FindOne(tasks, bids[1].taskId) = NoTask

\* ---------------------------------------------------------------- C12
\* A bid that is valid by itself: the task its findOne returned exists and is
\* somebody else's, the deadline had not passed when it was checked, and the
\* payload is well formed.
C12_Valid(task, bidData, t) ==
  /\ task # NoTask
  /\ task.creatorEmail # bidData.bidderEmail
  /\ ~(task.deadline \in DateStrings /\ t > DateDay(task.deadline) * DayLen)
  /\ bidData.biddingAmount \in {"20", "50", "75"}
  /\ bidData.bidderEmail \notin {Undefined, ""}
  /\ bidData.bidderDeadline \in {Undefined, ""} \cup DateStrings

\* C12: with two bid requests in flight, a request is answered 201 exactly
\* when its bid is valid by itself, judged on its own read of the task and its
\* own check time; what the other request does never makes it fail.
C12_IndependentBids ==
  (resp.op = "bid" /\ IsValid(resp.id))
    => (resp.status = 201 <=> C12_Valid(resp.task, resp.bidData, resp.checkTime))

\* Two bids by the same bidder on the same task are stored, both answered
\* 201; the second one's findOne ran before the first one's insert, so the
\* two requests overlapped.
C12_Witness ==
  /\ resp.op = "bid"
  /\ resp.status = 201
  /\ resp.bidsSeen = 0
  /\ Len(bids) = 2
  /\ bids[2]._id = resp.taskId
  /\ bids[1].taskId = bids[2].taskId
  /\ bids[1].bidderEmail = bids[2].bidderEmail
  /\ bidReq = [b \in Bidders |-> IdleBid]

\* ---------------------------------------------------------------- C13
\* C13: every step, whichever request takes it, leaves the stored bids as they
\* were and at most appends one; and every stored bid has status "pending".
C13_BidsPendingAndKept ==
  [][/\ Len(bids') >= Len(bids)
     /\ SubSeq(bids', 1, Len(bids)) = bids
     /\ \A i \in DOMAIN bids' : bids'[i].status = "pending"]_vars

\* A task with a stored bid was deleted (204): its bid is still stored, and
\* pending.
C13_Witness ==
  /\ resp.op = "delete"
  /\ resp.status = 204
  /\ Len(bids) = 1
  /\ bids[1].taskId = ObjectId(resp.id)
  /\ bids[1].status = "pending"
  /\ FindOne(tasks, bids[1].taskId) = NoTask

\* ---------------------------------------------------------------- C14
\* The JSON keys an update payload supplies that differ from the stored task.
C14_Differing(body, task) ==
  {f \in JsonTaskFields : body[f] # Undefined /\ body[f] # task[f]}
    \cup (IF body._id # NoId /\ body._id # task._id THEN {"_id"} ELSE {})

\* C14: an update with a valid id and a non-empty payload is answered 404
\* when no task has the id, and otherwise 200 with modifiedCount 0 when no
\* supplied field differs from the stored one and with modifiedCount 1 when
\* one does.
C14_ModifiedCount ==
  (resp.op = "update" /\ IsValid(resp.id) /\ ~EmptyPayload(resp.input))
    => IF resp.task = NoTask
         THEN resp.status = 404
         ELSE /\ resp.status = 200
              /\ resp.modifiedCount =
                   (IF C14_Differing(resp.input, resp.task) = {} THEN 0 ELSE 1)

\* ---------------------------------------------------------------- C15
\* C15: a step that answers a request with 500 leaves both collections as
\* they were, ends that request (its operation is not issued again), and
\* leaves every other request in flight as it was.
C15_FailureIsLocal ==
  [][(resp'.status = 500 /\ resp' # resp)
       => /\ tasks' = tasks
          /\ bids' = bids
          /\ resp'.op = "create" => (createReq' = IdleCreate /\ createReq.pc = "insertOne")
          /\ resp'.op # "create" => createReq' = createReq
          /\ resp'.op = "update" => (updateReq' = IdleUpdate /\ updateReq.pc = "updateOne")
          /\ resp'.op # "update" => updateReq' = updateReq
          /\ resp'.op = "bid" => bidReq' = [b \in Bidders |-> IdleBid]
          /\ resp'.op # "bid" => bidReq' = bidReq
          /\ resp'.op = "list" => listReq' = IdleList
          /\ resp'.op # "list" => listReq' = listReq]_vars

\* The insertOne of a task that carries no _id (so no duplicate key) was
\* answered 500 while an update was in flight; the stored task is untouched.
C15_Witness ==
  /\ resp.op = "create"
  /\ resp.status = 500
  /\ resp.input = BaseTask
  /\ updateReq.pc = "updateOne"
  /\ Len(tasks) = 1
  /\ tasks[1].updatedAt = NoTimestamp

\* ---------------------------------------------------------------- C16
\* C16: for a well-formed taskId the bid list is answered 200, with exactly
\* the stored bids that reference the id (none when there are none, whether
\* or not the task exists), newest first.
C16_ListByTask ==
  (resp.op = "listByTask" /\ IsValid(resp.id))
    => /\ resp.status = 200
       /\ {resp.bids[i] : i \in DOMAIN resp.bids}
            = {bids[i] : i \in {j \in DOMAIN bids : bids[j].taskId = ObjectId(resp.id)}}
       /\ \A i, j \in DOMAIN resp.bids : i # j => resp.bids[i] # resp.bids[j]
       /\ \A i, j \in DOMAIN resp.bids :
            i < j => resp.bids[i].bidPlacedAt >= resp.bids[j].bidPlacedAt

\* Two bids placed at different times on a task that was deleted afterwards
\* are listed, the later one first.
C16_Witness ==
  /\ resp.op = "listByTask"
  /\ resp.status = 200
  /\ resp.id \in deleted
  /\ Len(resp.bids) = 2
  /\ resp.bids[1].bidPlacedAt > resp.bids[2].bidPlacedAt
  /\ resp.bids[1] = bids[2]

\* The list for a well-formed id that no task ever had is empty, and 200,
\* while bids of another task are stored.
C16_WitnessEmpty ==
  /\ resp.op = "listByTask"
  /\ resp.id = MaxIds + 1
  /\ resp.status = 200
  /\ resp.bids = <<>>
  /\ bids # <<>>

C18_First(id, task, bidData, t) ==
  IF id = BadParam THEN <<400, "Invalid Task ID format.">>
  ELSE IF task = NoTask THEN <<404, "Task not found. Cannot place bid.">>
  ELSE IF bidData.bidderEmail = task.creatorEmail
    THEN <<403, "You cannot bid on your own task.">>
  ELSE IF task.deadline \in DateStrings /\ t > DateDay(task.deadline) * DayLen
    THEN <<403, "The deadline for bidding on this task has passed.">>
  ELSE IF bidData.biddingAmount \in {Undefined, "", "0"}
            \/ bidData.bidderEmail \in {Undefined, ""}
    THEN <<400, "Missing required bid fields">>
  ELSE IF bidData.biddingAmount \notin {"20", "50", "75"}
    THEN <<400, "Bidding amount must be a positive number.">>
  ELSE IF bidData.bidderDeadline \notin {Undefined, ""} \cup DateStrings
    THEN <<400, "Bidder deadline must be a valid date format if provided.">>
  ELSE <<201, "Bid placed successfully">>

\* C18: every bid request is answered with the status and message of the
\* first check that fails, in the order invalid id, task not found, self-bid,
\* deadline passed, missing fields, bad amount, bad bidderDeadline.
C18_CheckOrder ==
  resp.op = "bid"
    => <<resp.status, resp.message>>
         = C18_First(resp.id, resp.task, resp.bidData, resp.checkTime)

\* An empty payload against another user's task whose deadline has passed was
\* answered 403 for the deadline, not 400 for the missing fields.
C18_Witness ==
  /\ resp.op = "bid"
  /\ resp.bidData = NoBid
  /\ resp.task # NoTask
  /\ resp.checkTime > DateDay(resp.task.deadline) * DayLen
  /\ resp.status = 403
  /\ resp.message = "The deadline for bidding on this task has passed."

\* ---------------------------------------------------------------- C19
\* C19: every stored task has a positive numeric budget, a category of the
\* allow-list and a deadline that parses to a date.
C19_StoredTasksValid ==
  \A i \in DOMAIN tasks :
    /\ tasks[i].budget \in {"20", "50", "75"}
    /\ tasks[i].category \in allowedCategories
    /\ tasks[i].deadline \in DateStrings

\* ---------------------------------------------------------------- C20
\* C20: no stored bid whose task is stored has the task's creatorEmail as its
\* bidderEmail.
C20_NoStoredSelfBid ==
  \A i \in DOMAIN bids :
    LET task == FindOne(tasks, bids[i].taskId)
    IN task # NoTask => bids[i].bidderEmail # task.creatorEmail

\* An update that carried the bidder's email as creatorEmail was answered 200
\* on a task with a stored bid: the task is still its creator's.
C20_Witness ==
  /\ resp.op = "update"
  /\ resp.status = 200
  /\ Len(bids) = 1
  /\ resp.input.creatorEmail = bids[1].bidderEmail
  /\ bids[1].taskId = ObjectId(resp.id)
  /\ FindOne(tasks, bids[1].taskId).creatorEmail = "a@x.com"
  /\ FindOne(tasks, bids[1].taskId).updatedAt # NoTimestamp

====
